---- MODULE Spec2Model ----
(***************************************************************************)
(* Model of src/etl.py: the resampling / cropping pipeline for paired 3-D  *)
(* volumes (resampling_pipeline), the common-extent cropper with its       *)
(* adaptive crop-ratio solver (crop_images_to_common_dimensions), and the  *)
(* parallel harness (resample_directory, resample_images,                  *)
(* resample_images_standardize).                                           *)
(***************************************************************************)
EXTENDS Integers, Sequences, FiniteSets, TLC

(***************************************************************************)
(* Python floats.  The crop arithmetic of lines 363-402 is carried out in  *)
(* IEEE-754 binary64.  A non-negative double below 2^16 whose last place   *)
(* is at least 2^-64 is held exactly as five 16-bit limbs, least           *)
(* significant first: value = SUM limb[i] * 2^(16*(i-1)) / 2^64.           *)
(* Every operation computes the exact result on that grid and then rounds  *)
(* it to 53 significant bits, ties to even, as the hardware does.          *)
(***************************************************************************)
Limb == 65536

MantBits == 53

FromInt(n) == <<0, 0, 0, 0, n>>

FZero == FromInt(0)

FOne == FromInt(1)

FHalf == <<0, 0, 0, 32768, 0>>

RECURSIVE BitLen16(_)
BitLen16(v) == IF v = 0 THEN 0 ELSE 1 + BitLen16(v \div 2)

\* number of bits of the grid value x, counted from the last place of the grid
BitLen(x) ==
    IF x[5] > 0 THEN 64 + BitLen16(x[5])
    ELSE IF x[4] > 0 THEN 48 + BitLen16(x[4])
    ELSE IF x[3] > 0 THEN 32 + BitLen16(x[3])
    ELSE IF x[2] > 0 THEN 16 + BitLen16(x[2])
    ELSE BitLen16(x[1])

\* x with its low 27 bits replaced by lo2 (at most 2^27), the carry propagated
RoundCarry4(x, lo3, t2, t3, t4) ==
    <<lo3 % Limb, (lo3 \div Limb) + 2048 * (t2 % 32), t3 % Limb, t4 % Limb,
      x[5] + (t4 \div Limb)>>

RoundCarry3(x, lo3, t2, t3) == RoundCarry4(x, lo3, t2, t3, x[4] + (t3 \div Limb))

RoundCarry2(x, lo3, t2) == RoundCarry3(x, lo3, t2, x[3] + (t2 \div 32))

RoundCarry(x, lo2) ==
    RoundCarry2(x, lo2 % 134217728, (x[2] \div 2048) + (lo2 \div 134217728))

\* round to nearest, ties to even: low is the discarded part, half its midpoint
RoundsUp(low, half, sticky, lsb) ==
    low > half \/ (low = half /\ (sticky \/ lsb = 1))

RoundLow(x, sticky, sh, lo, low) ==
    RoundCarry(x, lo - low +
        (IF RoundsUp(low, 2^(sh - 1), sticky,
                     IF sh = 27 THEN (x[2] \div 2048) % 2 ELSE (lo \div (2^sh)) % 2)
         THEN 2^sh ELSE 0))

RoundShift(x, sticky, sh, lo) ==
    IF sh <= 0 THEN x ELSE RoundLow(x, sticky, sh, lo, lo % (2^sh))

\* Round the exact grid value x (plus, if sticky, a non-zero remainder below
\* the grid) to the nearest double, ties to even.
Round53(x, sticky) ==
    RoundShift(x, sticky, BitLen(x) - MantBits, x[1] + Limb * (x[2] % 2048))

\* long division of r / b into n limbs below the point, lowest first
RECURSIVE DivLimbs(_, _, _)
DivLimbs(b, r, n) ==
    IF n = 0 THEN [l |-> <<>>, r |-> r]
    ELSE LET rest == DivLimbs(b, (r * Limb) % b, n - 1)
         IN [l |-> Append(rest.l, (r * Limb) \div b), r |-> rest.r]

FDivRound(q, whole) == Round53(Append(q.l, whole), q.r # 0)

\* a / b for Python ints 0 <= a, 0 < b (int true division, correctly rounded)
FDiv(a, b) == FDivRound(DivLimbs(b, a % b, 4), a \div b)

\* x / 2 (exact: the last place of a quotient of small ints is above 2^-63)
FHalve(x) ==
    <<(x[1] \div 2) + 32768 * (x[2] % 2),
      (x[2] \div 2) + 32768 * (x[3] % 2),
      (x[3] \div 2) + 32768 * (x[4] % 2),
      (x[4] \div 2) + 32768 * (x[5] % 2),
      x[5] \div 2>>

FLess(x, y) ==
    \E i \in 1..5 : x[i] < y[i] /\ \A j \in (i+1)..5 : x[j] = y[j]

FLeq(x, y) == x = y \/ FLess(x, y)

RECURSIVE SubLimbs(_, _, _, _)
SubLimbs(x, y, i, borrow) ==
    LET d == x[i] - y[i] - borrow
    IN IF i = 5 THEN <<d>>
       ELSE <<IF d < 0 THEN d + Limb ELSE d>> \o SubLimbs(x, y, i + 1, IF d < 0 THEN 1 ELSE 0)

\* x - y for x >= y
FSub(x, y) == Round53(SubLimbs(x, y, 1, 0), FALSE)

RECURSIVE MulLimbs(_, _, _, _)
MulLimbs(d, x, i, carry) ==
    LET p == d * x[i] + carry
    IN IF i = 5 THEN <<p>>
       ELSE <<p % Limb>> \o MulLimbs(d, x, i + 1, p \div Limb)

\* d * x for a Python int 0 <= d converted to float
FMul(d, x) == Round53(MulLimbs(d, x, 1, 0), FALSE)

FMax(x, y) == IF FLess(x, y) THEN y ELSE x

FMin(x, y) == IF FLess(y, x) THEN y ELSE x

\* int(x) for x >= 0
FInt(x) == x[5]

(***************************************************************************)
(* Bounds of the model.                                                    *)
(***************************************************************************)
\* largest extent of the axis whose bounding boxes are enumerated in full
MaxExt == 12

\* largest extent of the long axis when it is the second or the third
MaxSideExt == 5

\* longest list handed to the cropper when it is called on its own
MaxCropImgs == 2

\* precomputed and fixed ratios are the doubles a/b with 0 <= a <= b <= MaxRatioDen
MaxRatioDen == 4

\* longest dataset handed to the pipeline and to the harness
MaxImgs == 2

\* largest first-axis extent of a dataset volume
MaxPipeExt == 3

\* largest worker count asked for
MaxJobs == 3

\* mp.cpu_count() of the host
CpuCount == 2

(***************************************************************************)
(* Volumes.  A volume is known by its geometry; its samples are abstract.  *)
(* id names the subject the samples come from, origin is 0 for the zero    *)
(* vector and 1 for any other, spacing is a rational <<num, den>> per axis.*)
(***************************************************************************)
Vol(id, size, spacing, origin) ==
    [id |-> id, size |-> size, spacing |-> spacing, origin |-> origin]

Axes == 1..3

\* find_shape_extrema's starting value for the minima
SentinelMin == 1000

RECURSIVE ExtremaFrom(_, _, _, _)
ExtremaFrom(imgs, k, mins, maxs) ==
    IF k > Len(imgs) THEN <<mins, maxs>>
    ELSE ExtremaFrom(imgs, k + 1,
            [a \in Axes |-> IF imgs[k].size[a] < mins[a] THEN imgs[k].size[a] ELSE mins[a]],
            [a \in Axes |-> IF imgs[k].size[a] > maxs[a] THEN imgs[k].size[a] ELSE maxs[a]])

find_shape_extrema(imgs) ==
    ExtremaFrom(imgs, 1, <<SentinelMin, SentinelMin, SentinelMin>>, <<0, 0, 0>>)

(***************************************************************************)
(* crop_images_to_common_dimensions.  A bounding box is what               *)
(* LabelShapeStatisticsImageFilter.GetBoundingBox reports for a volume:    *)
(* [start, span], each a triple, 0 <= start, span > 0, start+span <= size. *)
(***************************************************************************)
\* lines 363 / 368: the two candidates, (a / b) / 2 and 1 - (a / b) / 2
RatioFar(q) == FMax(q, FSub(FOne, q))

RatioNear(q) == FMin(q, FSub(FOne, q))

\* lines 356-369 (and the copies for the other two axes): one axis of the
\* adaptive solver; a_i / b_i raises ZeroDivisionError when b_i = 0
SolveAxis(start_max, end_min_from_end) ==
    IF start_max > end_min_from_end
    THEN [err |-> "None", ratio |-> RatioFar(FHalve(FDiv(end_min_from_end, start_max)))]
    ELSE IF end_min_from_end = 0
    THEN [err |-> "ZeroDivisionError", ratio |-> FZero]
    ELSE [err |-> "None", ratio |-> RatioNear(FHalve(FDiv(start_max, end_min_from_end)))]

SolveRatio(ext, start_max, span_min) ==
    SolveAxis(start_max, ext - (start_max + span_min))

\* lines 394, 398, 401: int(diff * ratio)
CropStart(diff, ratio) == FInt(FMul(diff, ratio))

\* the far bound as extent minus the floor of the far share
CropEndFloorShare(ext, diff, ratio) == ext - FInt(FMul(diff, FSub(FOne, ratio)))

\* lines 395, 399, 402: int(ext - diff * (1 - ratio))
CropEnd(ext, diff, ratio) ==
    FInt(FSub(FromInt(ext), FMul(diff, FSub(FOne, ratio))))

\* lines 351-354: the condition under which the trespass message is printed
Trespass(size, diff, bb) == \E a \in Axes : diff[a] > size[a] - bb.span[a]

\* lines 394-407: the window and the slice, once the ratios are known
CropWindow(img, bb, diff, warn, ratio, start, end) ==
    [err |-> "None", size |-> img.size, bb |-> bb, diff |-> diff, warn |-> warn,
     ratio |-> ratio, start |-> start, end |-> end,
     out |-> Vol(img.id, <<end[1] - start[1], end[2] - start[2], end[3] - start[3]>>,
                 img.spacing,
                 IF img.origin = 1 \/ \E a \in Axes : start[a] > 0 THEN 1 ELSE 0)]

CropWithRatio(img, bb, diff, warn, ratio) ==
    CropWindow(img, bb, diff, warn, ratio,
        <<CropStart(diff[1], ratio[1]), CropStart(diff[2], ratio[2]),
          CropStart(diff[3], ratio[3])>>,
        <<CropEnd(img.size[1], diff[1], ratio[1]), CropEnd(img.size[2], diff[2], ratio[2]),
          CropEnd(img.size[3], diff[3], ratio[3])>>)

\* lines 339-391: the solver overwrites the ratios of lines 323-326
CropSolved(img, bb, diff, sol) ==
    IF \E a \in Axes : sol[a].err # "None"
    THEN [err |-> "ZeroDivisionError"]
    ELSE CropWithRatio(img, bb, diff, Trespass(img.size, diff, bb),
                       <<sol[1].ratio, sol[2].ratio, sol[3].ratio>>)

\* One iteration of the loop of lines 321-407 for volume i.
CropStep(imgs, i, mins, fixed, dyn, find, bb) ==
    IF dyn # <<>> /\ i > Len(dyn)
    THEN [err |-> "IndexError"]
    ELSE IF find
    THEN CropSolved(imgs[i], bb, <<imgs[i].size[1] - mins[1], imgs[i].size[2] - mins[2],
                                   imgs[i].size[3] - mins[3]>>,
                    <<SolveRatio(imgs[i].size[1], bb.start[1], bb.span[1]),
                      SolveRatio(imgs[i].size[2], bb.start[2], bb.span[2]),
                      SolveRatio(imgs[i].size[3], bb.start[3], bb.span[3])>>)
    ELSE CropWithRatio(imgs[i], bb, <<imgs[i].size[1] - mins[1], imgs[i].size[2] - mins[2],
                                      imgs[i].size[3] - mins[3]>>,
                       FALSE, IF dyn = <<>> THEN fixed ELSE dyn[i])

\* the loop: the steps of the volumes up to and including the first that raises
RECURSIVE CropLoop(_, _, _, _, _, _, _, _)
CropLoop(imgs, i, mins, fixed, dyn, find, bbs, done) ==
    IF i > Len(imgs) \/ (done # <<>> /\ done[Len(done)].err # "None") THEN done
    ELSE CropLoop(imgs, i + 1, mins, fixed, dyn, find, bbs,
                  Append(done, CropStep(imgs, i, mins, fixed, dyn, find, bbs[i])))

CropOutcome(imgs, fixed, dyn, find, mins, steps, failed) ==
    [find |-> find, fixed |-> fixed, dyn |-> dyn, imgs |-> imgs, mins |-> mins,
     steps |-> IF failed THEN SubSeq(steps, 1, Len(steps) - 1) ELSE steps,
     err |-> IF failed THEN steps[Len(steps)].err ELSE "None",
     new_imgs |-> IF failed THEN <<>> ELSE [i \in 1..Len(steps) |-> steps[i].out],
     ratios |-> dyn]

CropDone(imgs, fixed, dyn, find, mins, steps) ==
    CropOutcome(imgs, fixed, dyn, find, mins, steps,
                steps # <<>> /\ steps[Len(steps)].err # "None")

CropFrom(imgs, fixed, dyn, find, bbs, mins) ==
    CropDone(imgs, fixed, dyn, find, mins,
             CropLoop(imgs, 1, mins, fixed, dyn, find, bbs, <<>>))

\* The whole call.  bbs[i] is the bounding box reported for imgs[i] (read
\* only when find_dynamic_bounding_ratios).  The list handed back with the
\* volumes is the dynamic_bounding_ratios argument itself: nothing is ever
\* appended to it (lines 410-411).
crop_images_to_common_dimensions(imgs, fixed, dyn, find, bbs) ==
    CropFrom(imgs, fixed, dyn, find, bbs, find_shape_extrema(imgs)[1])

(***************************************************************************)
(* resample_image and resample_image_standardize.                          *)
(***************************************************************************)
\* np.round of n/d for n >= 0, d > 0: to nearest, halves to even
RoundHalfEven(n, d) ==
    LET q == n \div d
        r == n % d
    IN IF 2 * r < d THEN q
       ELSE IF 2 * r > d THEN q + 1
       ELSE IF q % 2 = 0 THEN q ELSE q + 1

\* resampling_pipeline's defaults (lines 456-457)
OutSpacing == <<<<1, 1>>, <<1, 1>>, <<1, 1>>>>

OutSize == <<64, 64, 64>>

\* lines 18-39: the returned volume (the input's origin has been reset first)
resample_image(v, out_spacing) ==
    Vol(v.id,
        [a \in Axes |-> RoundHalfEven(v.size[a] * v.spacing[a][1] * out_spacing[a][2],
                                      v.spacing[a][2] * out_spacing[a][1])],
        out_spacing, 0)

\* lines 41-56: the returned volume lies on a fresh reference grid
resample_image_standardize(v, out_size) ==
    Vol(v.id, out_size,
        [a \in Axes |-> <<v.size[a] * v.spacing[a][1], out_size[a] * v.spacing[a][2]>>],
        0)

\* itk_image.SetOrigin([0, 0, 0]) (lines 19 and 42) on the object handed in
SetOriginZero(v) == [v EXCEPT !.origin = 0]

(***************************************************************************)
(* State.                                                                  *)
(***************************************************************************)
VARIABLES
    entry,            \* the function the caller invoked
    pc,               \* where that call stands
    n_jobs,           \* its n_jobs argument
    masks_only,       \* its masks_only argument
    masks_arg,        \* the caller's mask volumes (the objects themselves)
    imgs_arg,         \* the caller's image volumes, directory files, or crop inputs
    masks,            \* resampling_pipeline's local masks
    imgs,             \* resampling_pipeline's local imgs
    bounding_ratios,  \* resampling_pipeline's local bounding_ratios
    crop_call,        \* arguments of a direct crop_images_to_common_dimensions call
    crops,            \* the cropper's calls so far, each with its local values
    h,                \* the running resample_images / _standardize / _directory call
    files,            \* volumes written by resample_directory_helper
    err,              \* the exception that ended the call, "None" if none
    ret               \* the value returned to the caller

vars == <<entry, pc, n_jobs, masks_only, masks_arg, imgs_arg, masks, imgs,
          bounding_ratios, crop_call, crops, h, files, err, ret>>

\* n_jobs = None
None == -1000

JobCounts == {None} \cup (-2..MaxJobs)

HIdle == [fn |-> "none", pc |-> "idle", args |-> <<>>, list |-> "none", is_label |-> FALSE,
          task |-> <<>>, out |-> <<>>, order |-> <<>>, results |-> <<>>, pool |-> 0,
          processed |-> 0]

NoCall == [fixed |-> <<FHalf, FHalf, FHalf>>, dyn |-> <<>>, find |-> FALSE]

NoRet == [kind |-> "none"]

(***************************************************************************)
(* Inputs.                                                                 *)
(***************************************************************************)
Uniform(x) == <<x, x, x>>

\* volumes of a dataset: a few shapes with a spacing of 1, and the shapes of
\* odd first extent also with a spacing of 1/2, where np.round meets halves
PipeGeoms ==
    { [size |-> <<e, e + 1, e + 2>>, spacing |-> Uniform(<<1, 1>>)] : e \in 2..MaxPipeExt }
      \cup { [size |-> <<e, e + 1, e + 2>>, spacing |-> Uniform(<<1, 2>>)] :
                e \in {x \in 2..MaxPipeExt : x % 2 = 1} }

Datasets ==
    UNION { [1..n -> PipeGeoms] : n \in 1..MaxImgs }

AsVolumes(ds) == [i \in 1..Len(ds) |-> Vol(i, ds[i].size, ds[i].spacing, 1)]

\* bounding boxes a resampled mask may show: foreground at the near corner,
\* at the far corner, or filling the volume
PipeBoxes(size) ==
    { [start |-> <<0, 0, 0>>, span |-> <<1, 1, 1>>],
      [start |-> [a \in Axes |-> size[a] - 1], span |-> <<1, 1, 1>>],
      [start |-> <<0, 0, 0>>, span |-> size] }

\* one box per volume of the list
BoxesFor(list) ==
    { bbs \in [1..Len(list) -> UNION {PipeBoxes(list[i].size) : i \in 1..Len(list)}] :
        \A i \in 1..Len(list) : bbs[i] \in PipeBoxes(list[i].size) }

\* ---- inputs of a direct call of the cropper ----
AllBoxes1(ext) ==
    { <<st, sp>> \in (0..(ext - 1)) \X (1..ext) : st + sp <= ext }

\* boxes of the first volume: every valid box on one axis of extent at most
\* MaxExt, the foreground at the near or at the far end of the other two
OneAxisBoxes(size) ==
    UNION { { [start |-> [a \in Axes |-> IF a = f THEN b[1] ELSE IF far THEN size[a] - 1 ELSE 0],
               span  |-> [a \in Axes |-> IF a = f THEN b[2] ELSE 1]] :
                b \in AllBoxes1(size[f]), far \in BOOLEAN } :
            f \in {a \in Axes : size[a] <= MaxExt} }

FarBox(size) == [start |-> [a \in Axes |-> size[a] - 1], span |-> <<1, 1, 1>>]

NoBox == [start |-> <<0, 0, 0>>, span |-> <<0, 0, 0>>]

\* the first volume's box is drawn freely, the others have a far-corner box
CropBoxes(list) ==
    { [i \in 1..Len(list) |-> IF i = 1 THEN b ELSE FarBox(list[i].size)] :
        b \in OneAxisBoxes(list[1].size) }

BigExt == SentinelMin + 1

\* shapes of the first volume: one long axis (longest along the first), or
\* axes beyond the sentinel
CropShapes ==
    { <<w, 3, 2>> : w \in 1..MaxExt } \cup { <<3, w, 2>> : w \in 1..MaxSideExt }
      \cup { <<3, 2, w>> : w \in 1..MaxSideExt }
      \cup { <<BigExt, 3, 2>>, <<3, BigExt, BigExt + 1>> }

CropVol(i, size) == Vol(i, size, Uniform(<<1, 1>>), 0)

\* a list is the first volume alone, or with a cube that sets the minimum,
\* or a longer run of equal cubes
CropLists ==
    { <<CropVol(1, s)>> : s \in CropShapes }
      \cup { <<CropVol(1, s), CropVol(2, Uniform(m))>> :
               s \in CropShapes, m \in (1..MaxExt) \cup {BigExt} }
      \cup { [i \in 1..n |-> CropVol(i, Uniform(4))] : n \in 3..MaxCropImgs }

RatioSet ==
    { FDiv(p[1], p[2]) : p \in { q \in (0..MaxRatioDen) \X (1..MaxRatioDen) : q[1] <= q[2] } }

RatioTriples == UNION { { <<r, FHalf, r>>, <<r, r, r>> } : r \in RatioSet }

RatioLists ==
    { <<Uniform(r)>> : r \in RatioSet } \cup { <<Uniform(r), <<FHalf, r, FHalf>>>> : r \in RatioSet }

\* the arguments of a direct call: the solver on every list, the fixed and
\* the precomputed ratios on the lists whose long axis is the first
CropInputs ==
    { <<l, [fixed |-> <<FHalf, FHalf, FHalf>>, dyn |-> <<>>, find |-> TRUE]>> : l \in CropLists }
      \cup { <<l, [fixed |-> t, dyn |-> <<>>, find |-> FALSE]>> :
               l \in {x \in CropLists : x[1].size[2] = 3 /\ x[1].size[3] = 2}, t \in RatioTriples }
      \cup { <<l, [fixed |-> <<FHalf, FHalf, FHalf>>, dyn |-> d, find |-> FALSE]>> :
               l \in {x \in CropLists : x[1].size[2] = 3 /\ x[1].size[3] = 2}, d \in RatioLists }

(***************************************************************************)
(* The parallel harness: resample_images, resample_images_standardize,     *)
(* resample_directory.  h.pc is "loop" in the sequential for loop, "imap"  *)
(* while list(p.imap(...)) collects, "returned" and "raised" at the end.   *)
(* h.pool is the number of processes of the Pool the call opened (0: none),*)
(* h.processed the number of items a helper has been started on, h.order   *)
(* the items in the order the workers finished them.                       *)
(***************************************************************************)
Pending == Vol(0, <<0, 0, 0>>, OutSpacing, 0)

Entries == {"resampling_pipeline", "resample_images", "resample_images_standardize",
            "resample_directory"}

\* mp.Pool(processes): None means os.cpu_count(); fewer than 1 raises
\* ValueError("Number of processes must be at least 1") before any worker starts
PoolProcesses(processes) == IF processes = None THEN CpuCount ELSE processes

\* a pool that takes any worker count
PoolNeverRaises(processes) == FALSE

PoolRaises(processes) == PoolProcesses(processes) < 1

OpenPool(frame, processes) ==
    IF PoolRaises(processes)
    THEN [h |-> [frame EXCEPT !.pc = "raised"], err |-> "ValueError"]
    ELSE [h |-> [frame EXCEPT !.pc = IF frame.args = <<>> THEN "returned" ELSE "imap",
                              !.pool = PoolProcesses(processes),
                              !.task = [i \in 1..Len(frame.args) |-> "queued"],
                              !.out = [i \in 1..Len(frame.args) |-> Pending]],
          err |-> "None"]

\* lines 426-438 and 441-453 up to the first item: args are packed, then
\* n_jobs == 1 selects the loop and anything else goes to mp.Pool
resample_images_call(fn, list, items, is_label, jobs) ==
    LET frame == [HIdle EXCEPT !.fn = fn, !.list = list, !.args = items, !.is_label = is_label]
    IN IF jobs # None /\ jobs = 1
       THEN [h |-> [frame EXCEPT !.pc = IF items = <<>> THEN "returned" ELSE "loop"],
             err |-> "None"]
       ELSE OpenPool(frame, jobs)

\* line 159: n_jobs == 0 or n_jobs < -1; None < -1 is a TypeError in Python 3
DirectoryCheck(jobs) ==
    IF jobs = None THEN "TypeError"
    ELSE IF jobs = 0 \/ jobs < -1 THEN "ValueError"
    ELSE "None"

\* lines 171-175: the worker count handed to mp.Pool
DirectoryProcesses(jobs) ==
    IF jobs = -1 THEN CpuCount
    ELSE IF jobs > CpuCount THEN CpuCount
    ELSE jobs

\* lines 144-181 up to the first item
resample_directory_call(items, is_label, jobs) ==
    LET frame == [HIdle EXCEPT !.fn = "resample_directory", !.list = "files",
                               !.args = items, !.is_label = is_label]
        chk   == DirectoryCheck(jobs)
    IN IF chk # "None"
       THEN [h |-> [HIdle EXCEPT !.fn = "resample_directory", !.pc = "raised"], err |-> chk]
       ELSE IF jobs # None \/ jobs = 1
       THEN OpenPool(frame, DirectoryProcesses(jobs))
       ELSE [h |-> [frame EXCEPT !.pc = IF items = <<>> THEN "returned" ELSE "loop"],
             err |-> "None"]

\* what the helper of the running call computes from one item
HelperResult(fn, item) ==
    IF fn = "resample_images" THEN resample_image(item, OutSpacing)
    ELSE resample_image_standardize(item, OutSize)

\* the value the helper hands back: resample_directory_helper returns None
HelperReturn(fn, item) ==
    IF fn = "resample_directory" THEN Pending ELSE HelperResult(fn, item)

FilesAfter(fn, item) ==
    IF fn = "resample_directory" THEN files \cup {HelperResult(fn, item)} ELSE files

\* One iteration of the for loop (lines 433-434, 448-449, 180-181): the helper
\* runs in the calling process, on the caller's own object.
SeqStep ==
    /\ h.pc = "loop"
    /\ LET k    == Len(h.results) + 1
           item == h.args[k]
       IN /\ h' = [h EXCEPT !.results = Append(@, HelperReturn(h.fn, item)),
                            !.processed = @ + 1,
                            !.pc = IF k = Len(h.args) THEN "returned" ELSE "loop"]
          /\ files' = FilesAfter(h.fn, item)
          /\ masks' = IF h.list = "masks" THEN [masks EXCEPT ![k] = SetOriginZero(@)] ELSE masks
          /\ masks_arg' = IF h.list = "masks" /\ pc = "ResamplingMaskSpacing"
                          THEN [masks_arg EXCEPT ![k] = SetOriginZero(@)] ELSE masks_arg
          /\ imgs' = IF h.list = "imgs" THEN [imgs EXCEPT ![k] = SetOriginZero(@)] ELSE imgs
          /\ imgs_arg' = IF h.list = "imgs" /\ pc # "ResamplingImageSize"
                         THEN [imgs_arg EXCEPT ![k] = SetOriginZero(@)] ELSE imgs_arg
    /\ UNCHANGED <<entry, pc, n_jobs, masks_only, bounding_ratios, crop_call, crops, err, ret>>

Running == {i \in 1..Len(h.task) : h.task[i] = "running"}

Queued == {i \in 1..Len(h.task) : h.task[i] = "queued"}

\* a free worker takes the next task off the pool's queue, in submission order
PoolStart(k) ==
    /\ h.pc = "imap"
    /\ k \in Queued
    /\ \A j \in Queued : k <= j
    /\ Cardinality(Running) < h.pool
    /\ h' = [h EXCEPT !.task[k] = "running", !.processed = @ + 1]
    /\ UNCHANGED <<entry, pc, n_jobs, masks_only, masks_arg, imgs_arg, masks, imgs,
                   bounding_ratios, crop_call, crops, files, err, ret>>

\* a worker finishes its task, on its own unpickled copy of the item
PoolFinish(k) ==
    /\ h.pc = "imap"
    /\ k \in Running
    /\ h' = [h EXCEPT !.task[k] = "done", !.out[k] = HelperReturn(h.fn, h.args[k]),
                      !.order = Append(@, k)]
    /\ files' = FilesAfter(h.fn, h.args[k])
    /\ UNCHANGED <<entry, pc, n_jobs, masks_only, masks_arg, imgs_arg, masks, imgs,
                   bounding_ratios, crop_call, crops, err, ret>>

\* the iterator of p.imap_unordered: the latest submitted of the finished results
ImapUnordered ==
    IF \E k \in 1..Len(h.task) : h.task[k] = "done"
    THEN CHOOSE k \in 1..Len(h.task) :
            h.task[k] = "done" /\ \A j \in 1..Len(h.task) : h.task[j] = "done" => j <= k
    ELSE Len(h.results) + 1

\* the index whose result p.imap's iterator yields next
ImapIndex == Len(h.results) + 1

\* list(tqdm(p.imap(...))) takes the next result
ImapNext ==
    /\ h.pc = "imap"
    /\ LET k == ImapIndex
       IN /\ k <= Len(h.args)
          /\ h.task[k] = "done"
          /\ h' = [h EXCEPT !.results = Append(@, h.out[k]),
                            !.task[k] = "taken",
                            !.pc = IF Len(h.results) + 1 = Len(h.args) THEN "returned" ELSE "imap"]
    /\ UNCHANGED <<entry, pc, n_jobs, masks_only, masks_arg, imgs_arg, masks, imgs,
                   bounding_ratios, crop_call, crops, files, err, ret>>

\* a harness entry point called on its own
CallHarness ==
    /\ entry \in {"resample_images", "resample_images_standardize", "resample_directory"}
    /\ pc = "Idle"
    /\ LET r == IF entry = "resample_directory"
                THEN resample_directory_call(imgs_arg, FALSE, n_jobs)
                ELSE resample_images_call(entry, "imgs", imgs_arg, FALSE, n_jobs)
       IN /\ h' = r.h
          /\ err' = r.err
          /\ pc' = IF r.err # "None" THEN "Raised" ELSE "Running"
    /\ UNCHANGED <<entry, n_jobs, masks_only, masks_arg, imgs_arg, masks, imgs,
                   bounding_ratios, crop_call, crops, files, ret>>

ReturnHarness ==
    /\ pc = "Running"
    /\ h.pc = "returned"
    /\ pc' = "Done"
    /\ ret' = IF entry = "resample_directory" THEN [kind |-> "None"]
              ELSE [kind |-> "list", list |-> h.results]
    /\ UNCHANGED <<entry, n_jobs, masks_only, masks_arg, imgs_arg, masks, imgs,
                   bounding_ratios, crop_call, crops, h, files, err>>

(***************************************************************************)
(* resampling_pipeline (lines 456-505).  pc names the stage in progress.   *)
(***************************************************************************)
ResampleStages == {"ResamplingMaskSpacing", "ResamplingMaskSize",
                   "ResamplingImageSpacing", "ResamplingImageSize"}

ImageStages == {"ResamplingImageSpacing", "CroppingImages", "ResamplingImageSize"}

DefaultRatios == <<FHalf, FHalf, FHalf>>

\* line 488
CallPipeline ==
    /\ entry = "resampling_pipeline"
    /\ pc = "Idle"
    /\ pc' = "ResamplingMaskSpacing"
    /\ UNCHANGED <<entry, n_jobs, masks_only, masks_arg, imgs_arg, masks, imgs,
                   bounding_ratios, crop_call, crops, h, files, err, ret>>

StageCall(stage) ==
    IF stage = "ResamplingMaskSpacing"
    THEN resample_images_call("resample_images", "masks", masks, TRUE, n_jobs)
    ELSE IF stage = "ResamplingMaskSize"
    THEN resample_images_call("resample_images_standardize", "masks", masks, TRUE, n_jobs)
    ELSE IF stage = "ResamplingImageSpacing"
    THEN resample_images_call("resample_images", "imgs", imgs, FALSE, n_jobs)
    ELSE resample_images_call("resample_images_standardize", "imgs", imgs, FALSE, n_jobs)

\* lines 489, 493, 499, 503: the stage's call is entered
EnterStage ==
    /\ entry = "resampling_pipeline"
    /\ pc \in ResampleStages
    /\ h.pc = "idle"
    /\ LET r == StageCall(pc)
       IN /\ h' = r.h
          /\ err' = r.err
          /\ pc' = IF r.err # "None" THEN "Raised" ELSE pc
    /\ UNCHANGED <<entry, n_jobs, masks_only, masks_arg, imgs_arg, masks, imgs,
                   bounding_ratios, crop_call, crops, files, ret>>

\* a pipeline that always goes on to the image branch
ReturnsNever == FALSE

\* lines 495-496: whether the pipeline returns after the mask size stage
ReturnsAfterMasks == masks_only

\* a stage that hands back the pool's iterator as soon as the items are submitted
StageSubmitted == h.pc \in {"imap", "returned"}

\* the stage's call has returned: the loop is over, or list(...) has taken
\* every result of p.imap and the with block has closed the pool
StageCollected == h.pc = "returned"

\* the stage's call returns and its result list is bound (lines 489, 493-496,
\* 499, 503-505)
LeaveStage ==
    /\ entry = "resampling_pipeline"
    /\ pc \in ResampleStages
    /\ StageCollected
    /\ h' = HIdle
    /\ masks' = IF pc \in {"ResamplingMaskSpacing", "ResamplingMaskSize"} THEN h.results ELSE masks
    /\ imgs' = IF pc \in {"ResamplingImageSpacing", "ResamplingImageSize"} THEN h.results ELSE imgs
    /\ pc' = IF pc = "ResamplingMaskSpacing" THEN "CroppingMasks"
             ELSE IF pc = "ResamplingMaskSize"
             THEN (IF ReturnsAfterMasks THEN "Done" ELSE "ResamplingImageSpacing")
             ELSE IF pc = "ResamplingImageSpacing" THEN "CroppingImages"
             ELSE "Done"
    /\ ret' = IF pc = "ResamplingMaskSize" /\ ReturnsAfterMasks
              THEN [kind |-> "masks", masks |-> h.results]
              ELSE IF pc = "ResamplingImageSize"
              THEN [kind |-> "pair", imgs |-> h.results, masks |-> masks]
              ELSE ret
    /\ UNCHANGED <<entry, n_jobs, masks_only, masks_arg, imgs_arg,
                   bounding_ratios, crop_call, crops, files, err>>

\* line 491: the outcome r of the call is bound to masks, bounding_ratios
MasksCropped(r) ==
    /\ crops' = Append(crops, r)
    /\ err' = r.err
    /\ pc' = IF r.err # "None" THEN "Raised" ELSE "ResamplingMaskSize"
    /\ masks' = IF r.err # "None" THEN masks ELSE r.new_imgs
    /\ bounding_ratios' = IF r.err # "None" THEN bounding_ratios ELSE r.ratios

\* line 491: masks, bounding_ratios = crop_images_to_common_dimensions(masks,
\* find_dynamic_bounding_ratios=True)
CropMasks ==
    /\ entry = "resampling_pipeline"
    /\ pc = "CroppingMasks"
    /\ \E bbs \in BoxesFor(masks) :
         MasksCropped(crop_images_to_common_dimensions(masks, DefaultRatios, <<>>, TRUE, bbs))
    /\ UNCHANGED <<entry, n_jobs, masks_only, masks_arg, imgs_arg, imgs,
                   crop_call, h, files, ret>>

\* line 501: the outcome r of the call is bound to imgs
ImagesCropped(r) ==
    /\ crops' = Append(crops, r)
    /\ err' = r.err
    /\ pc' = IF r.err # "None" THEN "Raised" ELSE "ResamplingImageSize"
    /\ imgs' = IF r.err # "None" THEN imgs ELSE r.new_imgs

\* line 501: imgs = crop_images_to_common_dimensions(imgs,
\* dynamic_bounding_ratios=bounding_ratios)
CropImages ==
    /\ entry = "resampling_pipeline"
    /\ pc = "CroppingImages"
    /\ ImagesCropped(crop_images_to_common_dimensions(imgs, DefaultRatios, bounding_ratios,
                                                      FALSE, [i \in 1..Len(imgs) |-> NoBox]))
    /\ UNCHANGED <<entry, n_jobs, masks_only, masks_arg, imgs_arg, masks,
                   bounding_ratios, crop_call, h, files, ret>>

\* lines 410-413: what the caller of the cropper gets
CropReturned(r) ==
    /\ crops' = Append(crops, r)
    /\ err' = r.err
    /\ pc' = IF r.err # "None" THEN "Raised" ELSE "Done"
    /\ ret' = IF r.err # "None" THEN ret
              ELSE IF r.find
              THEN [kind |-> "crop", list |-> r.new_imgs, ratios |-> r.ratios]
              ELSE [kind |-> "list", list |-> r.new_imgs]

\* crop_images_to_common_dimensions called on its own
CallCrop ==
    /\ entry = "crop_images_to_common_dimensions"
    /\ pc = "Idle"
    /\ \E bbs \in (IF crop_call.find THEN CropBoxes(imgs_arg)
                   ELSE {[i \in 1..Len(imgs_arg) |-> NoBox]}) :
         CropReturned(crop_images_to_common_dimensions(imgs_arg, crop_call.fixed,
                                                       crop_call.dyn, crop_call.find, bbs))
    /\ UNCHANGED <<entry, n_jobs, masks_only, masks_arg, imgs_arg, masks, imgs,
                   bounding_ratios, crop_call, h, files>>

(***************************************************************************)
(* Specifications.                                                         *)
(***************************************************************************)
Init ==
    /\ entry \in Entries
    /\ pc = "Idle"
    /\ n_jobs \in JobCounts
    /\ masks_only \in (IF entry = "resampling_pipeline" THEN BOOLEAN ELSE {FALSE})
    /\ \E ds \in Datasets :
         /\ imgs_arg = AsVolumes(ds)
         /\ masks_arg = IF entry = "resampling_pipeline" THEN AsVolumes(ds) ELSE <<>>
    /\ masks = masks_arg
    /\ imgs = imgs_arg
    /\ bounding_ratios = <<>>
    /\ crop_call = NoCall
    /\ crops = <<>>
    /\ h = HIdle
    /\ files = {}
    /\ err = "None"
    /\ ret = NoRet

Next ==
    \/ CallPipeline
    \/ EnterStage
    \/ LeaveStage
    \/ CropMasks
    \/ CropImages
    \/ CallHarness
    \/ ReturnHarness
    \/ SeqStep
    \/ \E k \in 1..MaxImgs : PoolStart(k)
    \/ \E k \in 1..MaxImgs : PoolFinish(k)
    \/ ImapNext

Spec == Init /\ [][Next]_vars

\* the cropper on its own, over every bounding box of one axis
InitCrop ==
    /\ entry = "crop_images_to_common_dimensions"
    /\ pc = "Idle"
    /\ n_jobs = 1
    /\ masks_only = FALSE
    /\ \E in \in CropInputs : imgs_arg = in[1] /\ crop_call = in[2]
    /\ masks_arg = <<>>
    /\ masks = <<>>
    /\ imgs = imgs_arg
    /\ bounding_ratios = <<>>
    /\ crops = <<>>
    /\ h = HIdle
    /\ files = {}
    /\ err = "None"
    /\ ret = NoRet

NextCrop == CallCrop

SpecCrop == InitCrop /\ [][NextCrop]_vars

(***************************************************************************)
(* Properties of resampling_pipeline and of the harness, under Spec.       *)
(***************************************************************************)
HarnessEntries == {"resample_images", "resample_images_standardize", "resample_directory"}

MapEntries == {"resample_images", "resample_images_standardize"}

\* C1: in resampling_pipeline with masks_only = False, for every index i the
\* per-axis ratio used to crop image i in the image pass equals the ratio the
\* adaptive solver computed for mask i in the mask pass.
C1_ImagesCroppedWithSolvedRatios ==
    (entry = "resampling_pipeline" /\ ~masks_only /\ Len(crops) = 2) =>
        \A i \in 1..Len(crops[2].steps) :
            crops[2].steps[i].ratio = crops[1].steps[i].ratio

\* C2: the ratio list returned by the mask cropping stage has one entry per
\* mask, so the list stored when the image cropping stage is entered is as
\* long as the dataset.
C2_RatioListHasDatasetLength ==
    entry = "resampling_pipeline" =>
        /\ (Len(crops) >= 1 /\ crops[1].err = "None") =>
               Len(crops[1].ratios) = Len(crops[1].imgs)
        /\ pc = "CroppingImages" => Len(bounding_ratios) = Len(imgs_arg)

\* C6: resample_images and resample_images_standardize return a list as long
\* as the input whose k-th element is the transform of the k-th input, in
\* whatever order the pool workers finished.
C6_ResultsInInputOrder ==
    /\ (h.fn \in MapEntries /\ h.pc = "returned") =>
           /\ Len(h.results) = Len(h.args)
           /\ \A k \in 1..Len(h.args) : h.results[k] = HelperResult(h.fn, h.args[k])
    /\ (entry \in MapEntries /\ pc = "Done") =>
           /\ ret.kind = "list"
           /\ Len(ret.list) = Len(imgs_arg)
           /\ \A k \in 1..Len(imgs_arg) : ret.list[k] = HelperResult(entry, imgs_arg[k])

\* a pool of two or more workers finished the second item first, and the call
\* returned the two distinct results
C6_Witness ==
    /\ entry = "resample_images"
    /\ pc = "Done"
    /\ h.pool >= 2
    /\ h.order = <<2, 1>>
    /\ ret.list[1] # ret.list[2]

IllegalJobs == n_jobs # None /\ (n_jobs = 0 \/ n_jobs < -1)

\* C7: a harness entry point called with n_jobs = 0 or n_jobs < -1 ends by
\* raising ValueError, and when it does no item has been handed to a helper,
\* no pool has been opened and nothing has been written.
C7_IllegalCountFailsFast ==
    (entry \in HarnessEntries /\ IllegalJobs) =>
        /\ pc \in {"Idle", "Raised"}
        /\ pc = "Raised" => err = "ValueError"
        /\ h.processed = 0
        /\ h.pool = 0
        /\ h.task = <<>>
        /\ h.results = <<>>
        /\ files = {}

C7_Witness ==
    /\ entry = "resample_images"
    /\ n_jobs = 0
    /\ Len(imgs_arg) = 2
    /\ pc = "Raised"
    /\ err = "ValueError"
    /\ h.processed = 0

\* C8: every harness entry point accepts n_jobs = None, running the items in
\* the calling process without a pool, and n_jobs = -1, running them on a
\* pool of CpuCount workers; neither raises and every item is processed.
C8_SentinelCountsAccepted ==
    entry \in HarnessEntries =>
        /\ n_jobs = None =>
               /\ err = "None"
               /\ h.pool = 0
               /\ pc = "Done" => h.processed = Len(imgs_arg)
        /\ (n_jobs # None /\ n_jobs = -1) =>
               /\ err = "None"
               /\ pc \in {"Running", "Done"} => h.pool = CpuCount
               /\ pc = "Done" => h.processed = Len(imgs_arg)

TrueMin(list, a) ==
    CHOOSE m \in {list[i].size[a] : i \in 1..Len(list)} :
        \A i \in 1..Len(list) : m <= list[i].size[a]

\* C3: for a non-empty list and ratios in [0,1], the crop target is the true
\* per-axis minimum extent over the list, and every returned volume has
\* exactly that extent on every axis (end - start = minimum).
C3_CropsToTrueMinimum ==
    \A c \in 1..Len(crops) :
        (crops[c].err = "None" /\ crops[c].imgs # <<>>) =>
            \A a \in Axes :
                /\ crops[c].mins[a] = TrueMin(crops[c].imgs, a)
                /\ \A i \in 1..Len(crops[c].steps) :
                       /\ crops[c].steps[i].end[a] - crops[c].steps[i].start[a]
                              = TrueMin(crops[c].imgs, a)
                       /\ crops[c].new_imgs[i].size[a] = TrueMin(crops[c].imgs, a)

\* C4: for every valid bounding box, the full-span box included, the adaptive
\* solver does not fail and gives on each axis a ratio r with 0 <= r <= 1.
C4_SolverRatiosInUnitInterval ==
    \A c \in 1..Len(crops) :
        crops[c].find =>
            /\ crops[c].err = "None"
            /\ \A i \in 1..Len(crops[c].steps) : \A a \in Axes :
                   /\ FLeq(FZero, crops[c].steps[i].ratio[a])
                   /\ FLeq(crops[c].steps[i].ratio[a], FOne)

\* C5: in adaptive mode, on every axis whose excess is at most the extent
\* minus the foreground span, the window [start, end) of the solved ratio
\* contains the bounding box: start <= fgStart and end >= fgStart + fgSpan.
C5_SolvedWindowKeepsForeground ==
    \A c \in 1..Len(crops) :
        (crops[c].find /\ crops[c].err = "None") =>
            \A i \in 1..Len(crops[c].steps) : \A a \in Axes :
                crops[c].steps[i].diff[a]
                        <= crops[c].steps[i].size[a] - crops[c].steps[i].bb.span[a] =>
                    /\ crops[c].steps[i].start[a] <= crops[c].steps[i].bb.start[a]
                    /\ crops[c].steps[i].end[a]
                           >= crops[c].steps[i].bb.start[a] + crops[c].steps[i].bb.span[a]

\* floor(d * x) for an int d >= 0 and a grid value x, in exact arithmetic
FloorOfProduct(d, x) == MulLimbs(d, x, 1, 0)[5]

\* 1 - x for a grid value x <= 1, in exact arithmetic
OneMinus(x) == SubLimbs(FOne, x, 1, 0)

Dyadic16(r) == r[1] = 0 /\ r[2] = 0 /\ r[3] = 0

Units16(r) == r[4] + Limb * r[5]

C11_InputVolumesUnchanged ==
    (entry \in MapEntries /\ h.pc # "idle") => imgs_arg = h.args

\* the transitions of resampling_pipeline's stage counter
StageOrder ==
    { <<"Idle", "ResamplingMaskSpacing">>,
      <<"ResamplingMaskSpacing", "CroppingMasks">>,
      <<"CroppingMasks", "ResamplingMaskSize">>,
      <<"ResamplingMaskSize", "ResamplingImageSpacing">>,
      <<"ResamplingMaskSize", "Done">>,
      <<"ResamplingImageSpacing", "CroppingImages">>,
      <<"CroppingImages", "ResamplingImageSize">>,
      <<"ResamplingImageSize", "Done">> }
      \cup { <<s, "Raised">> : s \in ResampleStages \cup {"CroppingMasks", "CroppingImages"} }

\* the call whose work may be in flight while the pipeline is at stage
StageWork(stage) ==
    IF stage = "ResamplingMaskSpacing" THEN <<"resample_images", "masks">>
    ELSE IF stage = "ResamplingMaskSize" THEN <<"resample_images_standardize", "masks">>
    ELSE IF stage = "ResamplingImageSpacing" THEN <<"resample_images", "imgs">>
    ELSE IF stage = "ResamplingImageSize" THEN <<"resample_images_standardize", "imgs">>
    ELSE <<"none", "none">>

Resampled(list) ==
    /\ Len(list) = Len(imgs_arg)
    /\ \A i \in 1..Len(list) : list[i].id = i /\ list[i].spacing = OutSpacing

Standardized(list) ==
    /\ Len(list) = Len(imgs_arg)
    /\ \A i \in 1..Len(list) : list[i].id = i /\ list[i].size = OutSize

\* what the stages before the current one have left behind, in full
StagesMaterialized ==
    /\ pc \in {"CroppingMasks", "ResamplingMaskSize"} => Resampled(masks)
    /\ pc \in {"ResamplingMaskSize", "ResamplingImageSpacing", "CroppingImages",
               "ResamplingImageSize"} => Len(crops) >= 1
    /\ pc \in {"ResamplingImageSpacing", "CroppingImages", "ResamplingImageSize"} =>
           Standardized(masks)
    /\ pc \in {"CroppingImages", "ResamplingImageSize"} => Resampled(imgs)
    /\ pc = "ResamplingImageSize" => Len(crops) = 2
    /\ (pc = "Done" /\ ~masks_only) =>
           Standardized(masks) /\ Standardized(imgs) /\ Len(crops) = 2

\* the only work in flight is the current stage's own
StageWorkInFlight ==
    h.pc # "idle" =>
        /\ <<h.fn, h.list>> = StageWork(pc) \/ pc = "Raised"
        /\ Len(crops) = (IF pc \in {"ResamplingMaskSpacing"} THEN 0
                         ELSE IF pc \in {"ResamplingMaskSize", "ResamplingImageSpacing"} THEN 1
                         ELSE IF pc = "ResamplingImageSize" THEN 2 ELSE Len(crops))

\* C12: in resampling_pipeline the stages run in the order mask spacing, mask
\* crop, mask size, image spacing, image crop, image size; a stage starts only
\* when the stage before it has finished every item and its whole result list
\* has been bound, so only the current stage ever has work in flight.
C12_StagesStrictlySequential ==
    /\ [](entry = "resampling_pipeline" => StagesMaterialized /\ StageWorkInFlight)
    /\ [][entry = "resampling_pipeline" /\ pc' # pc => <<pc, pc'>> \in StageOrder]_vars

\* the image spacing stage has a worker busy on a pool of two, with both
\* masks already standardized
C12_Witness ==
    /\ entry = "resampling_pipeline"
    /\ pc = "ResamplingImageSpacing"
    /\ h.pool = 2
    /\ h.pc = "imap"
    /\ Running # {}
    /\ Len(masks) = 2
    /\ Standardized(masks)

====
